---- MODULE Spec2Model ----
(***************************************************************************)
(* A model of src/widgets.py: the Widget / Label / AbstractButton /        *)
(* TextButton hierarchy, their pixel surfaces, the dirty flag `changed`    *)
(* and the hover-driven dispatch of a button's action.                     *)
(*                                                                         *)
(* One widget instance is modelled (the record `self`), together with its  *)
(* entry of the process-wide table PYGUI_DISPATCHER.  Surfaces are grids   *)
(* of pixels; a pixel is a string naming what painted it (a fill colour,   *)
(* a pixel of the scaled background image, or a glyph).                    *)
(***************************************************************************)
EXTENDS Integers, Sequences, FiniteSets, TLC

(* ------------------------------ bounds --------------------------------- *)
MaxW == 2        \* the widget's width
MaxH == 2        \* widget heights are MaxH - 1 .. MaxH
MaxLen == 2      \* longest text, in glyphs

Widths == {MaxW}
Heights == (MaxH - 1)..MaxH

Max(a, b) == IF a >= b THEN a ELSE b
Min(a, b) == IF a <= b THEN a ELSE b

(* ------------------- the drawing backend (pygame) ---------------------- *)
(* Strings are sequences of glyphs.  The font has a narrow low glyph "A"   *)
(* and a wide tall glyph "B"; no glyph descends below the baseline.        *)
Glyphs == {"A", "B"}
Texts == UNION {[1..n -> Glyphs] : n \in 0..MaxLen}

GlyphW(g) == IF g = "A" THEN 1 ELSE 2
GlyphH(g) == IF g = "A" THEN 1 ELSE 2

RECURSIVE TextW(_)
TextW(t) == IF t = <<>> THEN 0 ELSE GlyphW(Head(t)) + TextW(Tail(t))

RECURSIVE TextH(_)
TextH(t) == IF t = <<>> THEN 0 ELSE Max(GlyphH(Head(t)), TextH(Tail(t)))

\* the glyph that covers column col of the rendered text t
RECURSIVE GlyphAt(_, _)
GlyphAt(t, col) ==
    IF col < GlyphW(Head(t)) THEN Head(t)
    ELSE GlyphAt(Tail(t), col - GlyphW(Head(t)))

\* freetype.Font.get_rect: the size of the text's bounding box and, as the
\* rect's x and y, the position of the text's origin: the bearing at the
\* start of the text and the height of the box above the baseline.
get_rect(t) == [x |-> 0, y |-> TextH(t), w |-> TextW(t), h |-> TextH(t)]

Transparent == "transparent"

Coords(W, H) == (0..(W - 1)) \X (0..(H - 1))

\* pg.Surface((w, h)) followed by fill(colour)
FilledSurface(W, H, colour) ==
    [w |-> W, h |-> H, px |-> [p \in Coords(W, H) |-> colour]]

\* a background image scaled to (w, h) by pg.transform.scale: no two of its
\* pixels are alike
ImgPixel(x, y) == "img" \o ToString(x) \o "_" \o ToString(y)
ScaledImage(W, H) ==
    [w |-> W, h |-> H, px |-> [p \in Coords(W, H) |-> ImgPixel(p[1], p[2])]]

\* a surface handed in by the caller (Widget's surf argument)
GivenSurface(W, H) == FilledSurface(W, H, "given")

\* an attribute that holds no surface
NoSurface == FilledSurface(0, 0, Transparent)

\* freetype.Font.render(text)[0]: the glyphs on a transparent surface of the
\* size of the text's box, every glyph standing on the baseline
font_render(t) ==
    [w |-> TextW(t), h |-> TextH(t),
     px |-> [p \in Coords(TextW(t), TextH(t)) |->
               LET g == GlyphAt(t, p[1])
               IN IF p[2] >= TextH(t) - GlyphH(g) THEN g ELSE Transparent]]

WholeArea(s) == [x |-> 0, y |-> 0, w |-> s.w, h |-> s.h]

\* Surface.blit(src, (dx, dy), area): the part of `area` that lies inside
\* src is copied to dst with its top-left corner at (dx, dy) (moved by what
\* was clipped off at the left and the top); transparent source pixels and
\* pixels falling outside dst change nothing.
blit(dst, src, dx, dy, area) ==
    LET sx0 == Max(area.x, 0)
        sy0 == Max(area.y, 0)
        sx1 == Min(area.x + area.w, src.w)
        sy1 == Min(area.y + area.h, src.h)
        ox == dx + (sx0 - area.x)
        oy == dy + (sy0 - area.y)
        Src(p) == <<sx0 + (p[1] - ox), sy0 + (p[2] - oy)>>
        Covered(p) == /\ Src(p)[1] >= sx0 /\ Src(p)[1] < sx1
                      /\ Src(p)[2] >= sy0 /\ Src(p)[2] < sy1
    IN [dst EXCEPT !.px =
          [p \in DOMAIN dst.px |->
             IF Covered(p) /\ src.px[Src(p)] # Transparent
             THEN src.px[Src(p)] ELSE dst.px[p]]]

(* ------------------------------ objects -------------------------------- *)
\* Python values that are not text: "None", "True", "False", a colour name,
\* "SURF" (a surface object), "IMG" (an image path), "callable".
Truthy(v) == v \notin {"None", "False"}

\* the attributes of an instance; an attribute not assigned yet holds the
\* default given here (hasSurf tells whether self.surf was ever assigned)
NewObject(kind) ==
    [kind |-> kind, w |-> 0, h |-> 0, hovered |-> FALSE, changed |-> FALSE,
     hasSurf |-> FALSE, surf |-> NoSurface, text |-> <<>>,
     bgsurf |-> NoSurface, action |-> "None", events |-> {}]

NoWidget == NewObject("none")

Ok(obj) == [err |-> "ok", self |-> obj]
Raise(e) == [err |-> e, self |-> NoWidget]

IsLabel(obj) == obj.kind \in {"Label", "TextButton"}
IsButton(obj) == obj.kind \in {"AbstractButton", "TextButton"}

(* ------------------------------- Label --------------------------------- *)
\* text_offsets without the halving: the text is put against the far edges
text_offsets_uncentered(obj, t) ==
    LET rect == get_rect(t)
    IN [x |-> obj.w - rect.w, y |-> obj.h - rect.h]

\* Label.text_offsets; the offsets are halves, and blit keeps their integer
\* part (they are never negative where they are used)
text_offsets(obj, t) ==
    LET rect == get_rect(t)
    IN [x |-> (obj.w - rect.w) \div 2, y |-> (obj.h - rect.h) \div 2]

\* Label.render_text; txt_surf is assigned nowhere
render_text(obj) ==
    IF ~obj.changed THEN NoSurface ELSE font_render(obj.text)

\* Label.make_surf, its first step: the background is blitted back onto
\* surf, whole on a first render (old_text is <<>> for None and for the
\* empty string alike: `not old_text` holds of both), and else the area
\* get_rect(old_text) of it at the old text's offset
erase_background(obj, old_text) ==
    IF old_text = <<>>
    THEN blit(obj.surf, obj.bgsurf, 0, 0, WholeArea(obj.bgsurf))
    ELSE LET subrect == get_rect(old_text)
             offset == text_offsets(obj, old_text)
         IN blit(obj.surf, obj.bgsurf, offset.x, offset.y, subrect)

\* make_surf with the dirty flag cleared once the surface is recomposed
make_surf_clearing(obj, old_text) ==
    IF ~obj.changed THEN obj
    ELSE
      LET erased == erase_background(obj, old_text)
          offset == text_offsets(obj, obj.text)
          txt == render_text(obj)
      IN [obj EXCEPT !.surf = blit(erased, txt, offset.x, offset.y, WholeArea(txt)),
                     !.changed = FALSE]

\* Label.make_surf: erase, then draw the current text at its offset
make_surf(obj, old_text) ==
    IF ~obj.changed THEN obj
    ELSE
      LET erased == erase_background(obj, old_text)
          offset == text_offsets(obj, obj.text)
          txt == render_text(obj)
      IN [obj EXCEPT !.surf = blit(erased, txt, offset.x, offset.y, WholeArea(txt))]

\* Label.text (getter)
text_get(obj) == obj.text

\* the setter with the widget marked dirty before the size is checked
text_set_mark_first(obj, string) ==
    LET nrect == get_rect(string)
        s0 == [obj EXCEPT !.changed = TRUE]
    IN IF nrect.w > obj.w \/ nrect.h > obj.h
       THEN [err |-> "ValueError", self |-> s0]
       ELSE LET previous_text == obj.text
                s1 == [s0 EXCEPT !.text = string]
            IN Ok(make_surf(s1, previous_text))

\* the setter with the new string not stored
text_set_not_stored(obj, string) ==
    LET nrect == get_rect(string)
    IN IF nrect.w > obj.w \/ nrect.h > obj.h
       THEN [err |-> "ValueError", self |-> obj]
       ELSE LET previous_text == obj.text
                s1 == [obj EXCEPT !.changed = TRUE]
            IN Ok(make_surf(s1, previous_text))

\* the setter rejecting only a string too large in both dimensions
text_set_both(obj, string) ==
    LET nrect == get_rect(string)
    IN IF nrect.w > obj.w /\ nrect.h > obj.h
       THEN [err |-> "ValueError", self |-> obj]
       ELSE LET previous_text == obj.text
                s1 == [obj EXCEPT !.changed = TRUE, !.text = string]
            IN Ok(make_surf(s1, previous_text))

\* the setter without self.changed = True
text_set_not_marked(obj, string) ==
    LET nrect == get_rect(string)
    IN IF nrect.w > obj.w \/ nrect.h > obj.h
       THEN [err |-> "ValueError", self |-> obj]
       ELSE LET previous_text == obj.text
                s1 == [obj EXCEPT !.text = string]
            IN Ok(make_surf(s1, previous_text))

\* Label.text (setter)
text_set(obj, string) ==
    LET nrect == get_rect(string)
    IN IF nrect.w > obj.w \/ nrect.h > obj.h
       THEN [err |-> "ValueError", self |-> obj]
       ELSE LET previous_text == obj.text
                s1 == [obj EXCEPT !.changed = TRUE, !.text = string]
            IN Ok(make_surf(s1, previous_text))

(* ---------------------------- construction ----------------------------- *)
\* Widget.__init__ without its last assignment, self.changed = True
Widget_init_clean(obj, W, H, surf, img, alpha) ==
    LET s1 == [obj EXCEPT !.w = W, !.h = H, !.hovered = FALSE]
    IN IF ~(surf = "None" \/ img = "None") THEN Raise("AssertionError")
       ELSE IF Truthy(surf)
            THEN Ok([s1 EXCEPT !.surf = GivenSurface(W, H), !.hasSurf = TRUE])
       ELSE IF Truthy(img) THEN Raise("AttributeError")
       ELSE Ok(s1)

\* Widget.__init__ (load_img reads self.alpha, which nothing assigns)
Widget_init(obj, W, H, surf, img, alpha) ==
    LET s1 == [obj EXCEPT !.w = W, !.h = H, !.hovered = FALSE]
    IN IF ~(surf = "None" \/ img = "None") THEN Raise("AssertionError")
       ELSE IF Truthy(surf)
            THEN Ok([s1 EXCEPT !.surf = GivenSurface(W, H), !.hasSurf = TRUE,
                               !.changed = TRUE])
       ELSE IF Truthy(img) THEN Raise("AttributeError")
       ELSE Ok([s1 EXCEPT !.changed = TRUE])

\* Label.__init__ without the test that refuses bgcolor with background
Label_init_no_conflict(obj, W, H, alpha, text, bgcolor, background) ==
    LET r == Widget_init(obj, W, H, "None", "None", alpha)
        colour == IF Truthy(bgcolor) THEN bgcolor
                  ELSE IF Truthy(alpha) THEN "ALPHA" ELSE "WHITE"
        bg == IF Truthy(background) THEN ScaledImage(W, H)
              ELSE FilledSurface(W, H, colour)
        s2 == [r.self EXCEPT !.text = text, !.bgsurf = bg, !.surf = bg,
                             !.hasSurf = TRUE]
        nrect == get_rect(text)
    IN IF r.err # "ok" THEN r
       ELSE IF bgcolor = "None" /\ background = "None" /\ alpha = "None"
            THEN Raise("TypeError")
       ELSE IF nrect.w > W \/ nrect.h > H THEN Raise("ValueError")
       ELSE Ok(make_surf(s2, <<>>))

\* Label.__init__(w, h, *args, alpha, text, bgcolor, background, **kwargs):
\* positional extras and unknown keywords (surf, img) are accepted and
\* ignored
Label_init(obj, W, H, alpha, text, bgcolor, background) ==
    LET r == Widget_init(obj, W, H, "None", "None", alpha)
        colour == IF Truthy(bgcolor) THEN bgcolor
                  ELSE IF Truthy(alpha) THEN "ALPHA" ELSE "WHITE"
        bg == IF Truthy(background) THEN ScaledImage(W, H)
              ELSE FilledSurface(W, H, colour)
        s2 == [r.self EXCEPT !.text = text, !.bgsurf = bg, !.surf = bg,
                             !.hasSurf = TRUE]
        nrect == get_rect(text)
    IN IF r.err # "ok" THEN r
       ELSE IF bgcolor = "None" /\ background = "None" /\ alpha = "None"
            THEN Raise("TypeError")
       ELSE IF bgcolor # "None" /\ Truthy(background) THEN Raise("ValueError")
       ELSE IF nrect.w > W \/ nrect.h > H THEN Raise("ValueError")
       ELSE Ok(make_surf(s2, <<>>))

\* AbstractButton.__init__(w, h, *args, alpha, action, **kwargs): the next
\* initialiser in the method resolution order (Label's for a TextButton,
\* Widget's otherwise) gets w, h and alpha only
AbstractButton_init(obj, W, H, alpha, action) ==
    LET r == IF obj.kind = "TextButton"
             THEN Label_init(obj, W, H, alpha, <<>>, "None", "None")
             ELSE Widget_init(obj, W, H, "None", "None", alpha)
    IN IF r.err # "ok" THEN r
       ELSE Ok([r.self EXCEPT !.w = W, !.h = H, !.action = action,
                              !.events = {"MOUSEBUTTONUP"}])

\* TextButton.__init__(w, h, alpha, action, text, bgcolor, ...): it has no
\* surf or img parameter, and hands alpha=False, action and its own
\* defaults on
TextButton_init(obj, a) ==
    IF a.surf # "None" \/ a.img # "None" THEN Raise("TypeError")
    ELSE AbstractButton_init(obj, a.w, a.h, "False", a.action)

\* the call kind(w, h, surf=..., img=..., alpha=..., text=..., ...)
Construct(a) ==
    CASE a.kind = "Widget" ->
           Widget_init(NewObject(a.kind), a.w, a.h, a.surf, a.img, a.alpha)
      [] a.kind = "Label" ->
           Label_init(NewObject(a.kind), a.w, a.h, a.alpha, a.text, a.bgcolor,
                      a.background)
      [] a.kind = "AbstractButton" ->
           AbstractButton_init(NewObject(a.kind), a.w, a.h, a.alpha, a.action)
      [] a.kind = "TextButton" -> TextButton_init(NewObject(a.kind), a)

(* ------------------------------ buttons -------------------------------- *)
Events == {"MOUSEBUTTONUP", "MOUSEBUTTONDOWN"}

\* Widget.update
Widget_update(obj) == [err |-> "ok", calls |-> 0]

\* AbstractButton.update without the test of self.hovered
AbstractButton_update_any(obj, entry) ==
    IF entry # {}
    THEN IF obj.action = "None" THEN [err |-> "TypeError", calls |-> 0]
         ELSE [err |-> "ok", calls |-> 1]
    ELSE [err |-> "ok", calls |-> 0]

\* AbstractButton.update: `entry` is PYGUI_DISPATCHER[self]; calls counts
\* the invocations of self.action made by this call, and calling None is a
\* TypeError
AbstractButton_update(obj, entry) ==
    IF obj.hovered
    THEN IF entry # {}
         THEN IF obj.action = "None" THEN [err |-> "TypeError", calls |-> 0]
              ELSE [err |-> "ok", calls |-> 1]
         ELSE [err |-> "ok", calls |-> 0]
    ELSE [err |-> "ok", calls |-> 0]

update(obj, entry) ==
    IF IsButton(obj) THEN AbstractButton_update(obj, entry)
    ELSE Widget_update(obj)

(* --------------------------- the state machine ------------------------- *)
VARIABLES
    self,              \* the widget instance (NoWidget: construction failed)
    PYGUI_DISPATCHER,  \* the table: widget -> events polled in this frame
    ctor,              \* the constructor's arguments, while lastOp = "construct"
    lastOp,            \* the operation performed last
    err,               \* how it ended: "ok" or the exception raised
    arg,               \* the string handed to the last text assignment
    calls              \* invocations of action by the last operation

\* the keys of the table: the modelled widget and another one
Keys == {"self", "other"}

vars == <<self, PYGUI_DISPATCHER, ctor, lastOp, err, arg, calls>>

CtorArgs ==
    [kind : {"Widget"}, w : Widths, h : Heights, surf : {"None", "SURF"},
     img : {"None", "IMG"}, alpha : {"True", "False"}, text : {<<>>},
     bgcolor : {"None"}, background : {"None"}, action : {"None"}]
    \cup
    [kind : {"Label"}, w : Widths, h : Heights, surf : {"None", "SURF"},
     img : {"None", "IMG"}, alpha : {"True", "False", "None"}, text : Texts,
     bgcolor : {"None", "RED"}, background : {"None", "IMAGE"},
     action : {"None"}]
    \cup
    [kind : {"AbstractButton"}, w : Widths, h : Heights,
     surf : {"None", "SURF"}, img : {"None", "IMG"}, alpha : {"False"},
     text : {<<>>}, bgcolor : {"None"}, background : {"None"},
     action : {"None", "callable"}]
    \cup
    [kind : {"TextButton"}, w : Widths, h : Heights,
     surf : {"None", "SURF"}, img : {"None", "IMG"}, alpha : {"False"},
     text : Texts, bgcolor : {"None", "RED"}, background : {"None"},
     action : {"None", "callable"}]

Init ==
    \E a \in CtorArgs :
        /\ LET r == Construct(a)
           IN self = r.self /\ err = r.err
        /\ ctor = a
        /\ PYGUI_DISPATCHER = [k \in Keys |->
                                 IF k = "self" THEN {} ELSE {"MOUSEBUTTONUP"}]
        /\ lastOp = "construct"
        /\ arg = <<>>
        /\ calls = 0

Alive == self.kind # "none"

\* ctor once another operation has been performed
NoArgs ==
    [kind |-> "none", w |-> 0, h |-> 0, surf |-> "None", img |-> "None",
     alpha |-> "None", text |-> <<>>, bgcolor |-> "None",
     background |-> "None", action |-> "None"]

\* label.text = string
SetText(string) ==
    /\ Alive /\ IsLabel(self)
    /\ LET r == text_set(self, string)
       IN self' = r.self /\ err' = r.err
    /\ lastOp' = "set_text"
    /\ arg' = string
    /\ calls' = 0
    /\ ctor' = NoArgs
    /\ UNCHANGED PYGUI_DISPATCHER

\* label.make_surf()
MakeSurf ==
    /\ Alive /\ IsLabel(self)
    /\ self' = make_surf(self, <<>>)
    /\ err' = "ok"
    /\ lastOp' = "make_surf"
    /\ arg' = <<>>
    /\ calls' = 0
    /\ ctor' = NoArgs
    /\ UNCHANGED PYGUI_DISPATCHER

\* update() consuming the events it has handled
Update_consuming ==
    /\ Alive
    /\ LET r == update(self, PYGUI_DISPATCHER["self"])
       IN err' = r.err /\ calls' = r.calls
    /\ lastOp' = "update"
    /\ arg' = <<>>
    /\ ctor' = NoArgs
    /\ PYGUI_DISPATCHER' = [PYGUI_DISPATCHER EXCEPT !["self"] = {}]
    /\ UNCHANGED self

\* update() marking the widget dirty when it has invoked the action
Update_dirty ==
    /\ Alive
    /\ LET r == update(self, PYGUI_DISPATCHER["self"])
       IN /\ err' = r.err /\ calls' = r.calls
          /\ self' = IF r.calls > 0 THEN [self EXCEPT !.changed = TRUE]
                     ELSE self
    /\ lastOp' = "update"
    /\ arg' = <<>>
    /\ ctor' = NoArgs
    /\ UNCHANGED PYGUI_DISPATCHER

\* widget.update()
Update ==
    /\ Alive
    /\ LET r == update(self, PYGUI_DISPATCHER["self"])
       IN err' = r.err /\ calls' = r.calls
    /\ lastOp' = "update"
    /\ arg' = <<>>
    /\ ctor' = NoArgs
    /\ UNCHANGED <<self, PYGUI_DISPATCHER>>

\* the frame loop's pointer tracking sets or clears hovered (followed for
\* buttons, the only widgets that read the flag)
SetHovered(b) ==
    /\ Alive /\ IsButton(self)
    /\ self.hovered # b
    /\ self' = [self EXCEPT !.hovered = b]
    /\ lastOp' = "hover"
    /\ err' = "ok"
    /\ arg' = <<>>
    /\ calls' = 0
    /\ ctor' = NoArgs
    /\ UNCHANGED PYGUI_DISPATCHER

\* the frame loop's polling step rewrites the widget's dispatcher entry
\* (the other widget's events stay what they are)
\* (followed for buttons, the only widgets that read the table)
Poll(entry) ==
    /\ Alive /\ IsButton(self)
    /\ PYGUI_DISPATCHER["self"] # entry
    /\ PYGUI_DISPATCHER' = [PYGUI_DISPATCHER EXCEPT !["self"] = entry]
    /\ lastOp' = "poll"
    /\ err' = "ok"
    /\ arg' = <<>>
    /\ calls' = 0
    /\ ctor' = NoArgs
    /\ UNCHANGED self

\* the container re-blits the surface of a changed widget and clears the flag
ContainerRead ==
    /\ Alive
    /\ self.changed
    /\ self' = [self EXCEPT !.changed = FALSE]
    /\ lastOp' = "read"
    /\ err' = "ok"
    /\ arg' = <<>>
    /\ calls' = 0
    /\ ctor' = NoArgs
    /\ UNCHANGED PYGUI_DISPATCHER

Next ==
    \/ \E string \in Texts : SetText(string)
    \/ MakeSurf
    \/ Update
    \/ \E b \in BOOLEAN : SetHovered(b)
    \/ \E entry \in SUBSET Events : Poll(entry)
    \/ ContainerRead

Spec == Init /\ [][Next]_vars

\* the frame loop runs on: a widget whose flag is set is read in the end
FairSpec == Spec /\ WF_vars(ContainerRead)

(* ------------------------------- claims -------------------------------- *)
\* the measured box of string fits the widget
Fits(obj, string) == TextW(string) <= obj.w /\ TextH(string) <= obj.h

\* the surface of an identically configured Label whose text was obj.text
\* from its first render: a copy of the background, recomposed once
FirstRender(obj) ==
    make_surf([obj EXCEPT !.surf = obj.bgsurf, !.changed = TRUE], <<>>).surf

\* C1: after a successful text assignment the surface is pixel-identical to
\* the surface of an identically configured Label whose text was the
\* assigned string from its first render.
C1_EraseCorrect ==
    (IsLabel(self) /\ lastOp = "set_text" /\ err = "ok")
        => self.surf = FirstRender(self)

\* C2: a text assignment of a string whose box is wider than w or taller
\* than h raises the oversize error and leaves text, surf and changed as
\* they were.
C2_RejectLeavesState ==
    [][(lastOp' = "set_text" /\ ~Fits(self, arg'))
          => /\ err' = "ValueError"
             /\ text_get(self') = text_get(self)
             /\ self'.surf = self.surf
             /\ self'.changed = self.changed]_vars

C2_Witness ==
    /\ lastOp = "set_text" /\ err = "ValueError"
    /\ TextW(arg) > self.w
    /\ self.text # <<>> /\ ~self.changed

\* C3: with a callable action, an update() of a hovered button whose
\* dispatcher entry holds the released event invokes action exactly once,
\* and an update() of a button that is not hovered invokes it zero times.
C3_Activation ==
    (lastOp = "update" /\ IsButton(self) /\ self.action = "callable")
        => /\ (self.hovered /\ "MOUSEBUTTONUP" \in PYGUI_DISPATCHER["self"])
                => (calls = 1 /\ err = "ok")
           /\ ~self.hovered => (calls = 0 /\ err = "ok")

C3_Witness ==
    /\ lastOp = "update" /\ IsButton(self) /\ self.action = "callable"
    /\ self.hovered /\ "MOUSEBUTTONUP" \in PYGUI_DISPATCHER["self"]
    /\ calls = 1

\* C4 as stated: after construction, a successful text assignment or a
\* make_surf call on a Label, changed is false.
C4_RecomposeClearsFlag ==
    (IsLabel(self) /\ lastOp \in {"construct", "set_text", "make_surf"}
       /\ err = "ok") => ~self.changed

\* C4 amended: recomposing does not clear the dirty flag: changed is true
\* after the construction of a Label and after a successful text
\* assignment, and a make_surf call leaves changed as it was, so a second
\* make_surf call takes the dirty branch again.
C4_RecomposeKeepsFlag ==
    [][/\ (IsLabel(self) /\ lastOp = "construct") => self.changed
       /\ (lastOp' = "set_text" /\ err' = "ok") => self'.changed
       /\ lastOp' = "make_surf" => self'.changed = self.changed]_vars

C4_Witness ==
    /\ IsLabel(self) /\ lastOp = "make_surf"
    /\ self.changed /\ self.text # <<>>

\* C5: a make_surf call on a Label (which was recomposed by its constructor
\* or by its last text assignment) leaves surf pixel-identical.
C5_Idempotent ==
    [][lastOp' = "make_surf" => self'.surf = self.surf]_vars

\* C6: assigning a string whose box fits (w, h) raises no error, and
\* reading text then returns the assigned string.
C6_RoundTrip ==
    (lastOp = "set_text" /\ Fits(self, arg))
        => (err = "ok" /\ text_get(self) = arg)

C6_Witness ==
    /\ lastOp = "set_text" /\ err = "ok"
    /\ arg # <<>> /\ text_get(self) = arg

\* C7: changed is true immediately after a successful construction, for
\* every kind of widget.
C7_ChangedAfterConstruction ==
    (lastOp = "construct" /\ err = "ok") => self.changed

C7_Witness ==
    /\ lastOp = "construct" /\ err = "ok"
    /\ self.kind = "TextButton" /\ self.changed

\* C8: update() of a hovered button whose action is None and whose
\* dispatcher entry is not empty returns normally and invokes nothing.
C8_NoneActionSkipped ==
    (lastOp = "update" /\ IsButton(self) /\ self.action = "None"
       /\ self.hovered /\ PYGUI_DISPATCHER["self"] # {})
        => (err = "ok" /\ calls = 0)

\* C9: the measured box of the current text of a Label or TextButton is no
\* wider than w and no taller than h.
C9_TextFits ==
    IsLabel(self)
        => (get_rect(self.text).w <= self.w /\ get_rect(self.text).h <= self.h)

C9_Witness ==
    /\ IsLabel(self) /\ lastOp = "set_text" /\ err = "ValueError"
    /\ TextH(arg) > self.h
    /\ get_rect(self.text).w = self.w

\* C10: a construction with both a surface and an image path supplied fails
\* with the argument-conflict error and yields no widget, whatever the kind.
C10_ConflictRejected ==
    (lastOp = "construct" /\ ctor.surf # "None" /\ ctor.img # "None")
        => (err = "AssertionError" /\ ~Alive)

\* the construction of a Label that has just taken place
LabelBuilt == lastOp = "construct" /\ ctor.kind = "Label"

\* C11 as stated: a Label given both bgcolor and background is refused, a
\* Label given no bgcolor, no background and no transparency request is
\* refused, and a constructed Label has one background source filling a
\* (w, h) background surface.
C11_BackgroundValidated ==
    LabelBuilt =>
        /\ (ctor.bgcolor # "None" /\ ctor.background # "None") => err # "ok"
        /\ (ctor.bgcolor = "None" /\ ctor.background = "None"
              /\ ~Truthy(ctor.alpha)) => err # "ok"
        /\ err = "ok" => (self.bgsurf.w = self.w /\ self.bgsurf.h = self.h)

\* C11 amended: both bgcolor and background is a ValueError; none of them
\* is a TypeError only when alpha is None, and else the fill defaults to
\* WHITE (alpha false) or ALPHA (alpha true); a constructed Label has one
\* background source, the scaled image or the fill, of size (w, h).
C11_BackgroundSource ==
    LabelBuilt =>
        /\ (ctor.bgcolor # "None" /\ ctor.background # "None")
              => err = "ValueError"
        /\ (ctor.bgcolor = "None" /\ ctor.background = "None"
              /\ ctor.alpha = "None") => err = "TypeError"
        /\ err = "ok" =>
              self.bgsurf =
                 IF ctor.background # "None" THEN ScaledImage(ctor.w, ctor.h)
                 ELSE FilledSurface(ctor.w, ctor.h,
                        IF ctor.bgcolor # "None" THEN ctor.bgcolor
                        ELSE IF ctor.alpha = "True" THEN "ALPHA" ELSE "WHITE")

C11_Witness ==
    /\ LabelBuilt /\ err = "ok"
    /\ ctor.bgcolor = "None" /\ ctor.background = "None"
    /\ ctor.alpha = "False"
    /\ self.bgsurf = FilledSurface(self.w, self.h, "WHITE")

\* C12: a constructed widget whose changed flag is true has a surf for the
\* frame loop to read.
C12_SurfDefined == (Alive /\ self.changed) => self.hasSurf

\* C13: constructing a Widget with an image path and no surface succeeds
\* and surf is the loaded image.
C13_ImageLoaded ==
    (lastOp = "construct" /\ ctor.kind = "Widget"
       /\ ctor.img # "None" /\ ctor.surf = "None")
        => (err = "ok" /\ self.hasSurf)

\* C14: no widget operation (update(), text assignment, make_surf) adds,
\* removes or changes a dispatcher entry, the widget's own or another's.
C14_DispatcherReadOnly ==
    [][lastOp' \in {"update", "set_text", "make_surf"}
          => PYGUI_DISPATCHER' = PYGUI_DISPATCHER]_vars

C14_Witness ==
    /\ lastOp = "update" /\ IsButton(self) /\ self.hovered /\ calls = 1
    /\ PYGUI_DISPATCHER["self"] = {"MOUSEBUTTONUP"}
    /\ PYGUI_DISPATCHER["other"] # {}

\* C15: on a TextButton update() leaves text, surf and changed unchanged,
\* and a text assignment leaves hovered, action and events unchanged.
C15_FacetsApart ==
    [][self.kind = "TextButton" =>
          /\ lastOp' = "update" =>
                /\ self'.text = self.text
                /\ self'.surf = self.surf
                /\ self'.changed = self.changed
          /\ lastOp' = "set_text" =>
                /\ self'.hovered = self.hovered
                /\ self'.action = self.action
                /\ self'.events = self.events]_vars

C15_Witness ==
    /\ self.kind = "TextButton" /\ lastOp = "update" /\ calls = 1
    /\ self.text # <<>> /\ ~self.changed

\* the glyphs of the current text are on surf at the text's offset
ShowsText(obj) ==
    LET offset == text_offsets(obj, obj.text)
        txt == font_render(obj.text)
    IN blit(obj.surf, txt, offset.x, offset.y, WholeArea(txt)) = obj.surf

C17_QualifyingEventOnly ==
    (lastOp = "update" /\ IsButton(self) /\ self.action = "callable")
        => /\ err = "ok"
           /\ calls = 1 <=> (/\ self.hovered
                             /\ PYGUI_DISPATCHER["self"] \cap self.events # {})
           /\ calls \in {0, 1}

\* the pixels of the centered placement rectangle of text t: offset
\* ((w - tw) / 2, (h - th) / 2), size (tw, th)
PlacementRect(obj, t) ==
    LET x0 == (obj.w - TextW(t)) \div 2
        y0 == (obj.h - TextH(t)) \div 2
    IN {p \in Coords(obj.w, obj.h) :
          /\ p[1] >= x0 /\ p[1] < x0 + TextW(t)
          /\ p[2] >= y0 /\ p[2] < y0 + TextH(t)}

\* C18: when a text assignment recomposes a Label whose previous text is
\* not empty, the erase step sets every pixel of surf inside the previous
\* text's placement rectangle to the background pixel at the same place.
C18_EraseRestoresBackground ==
    [][(lastOp' = "set_text" /\ err' = "ok" /\ self.text # <<>>)
          => \A p \in PlacementRect(self, self.text) :
                erase_background(self, self.text).px[p] = self.bgsurf.px[p]]_vars

\* C19: a successful text assignment on a Label whose previous text is not
\* empty changes no pixel of surf outside the placement rectangles of the
\* previous and of the new text, and does not change bgsurf.
C19_BoundedRepaint ==
    [][(lastOp' = "set_text" /\ err' = "ok" /\ self.text # <<>>)
          => /\ self'.bgsurf = self.bgsurf
             /\ \A p \in Coords(self.w, self.h) \
                         (PlacementRect(self, self.text)
                            \cup PlacementRect(self, self'.text)) :
                   self'.surf.px[p] = self.surf.px[p]]_vars

C19_Witness ==
    /\ IsLabel(self) /\ lastOp = "set_text" /\ err = "ok"
    /\ self.text # <<>>
    /\ \E p \in Coords(self.w, self.h) \ PlacementRect(self, self.text) :
          self.surf.px[p] # self.bgsurf.px[p]

\* C20: a TextButton constructed with a fitting text and a background
\* colour shows that text on that background: text returns it and surf is
\* the first render of it on the fill of the colour given.
C20_TextButtonIsLabel ==
    (lastOp = "construct" /\ ctor.kind = "TextButton"
       /\ ctor.surf = "None" /\ ctor.img = "None" /\ Fits(ctor, ctor.text))
        => /\ err = "ok"
           /\ text_get(self) = ctor.text
           /\ ctor.bgcolor # "None"
                => self.bgsurf = FilledSurface(ctor.w, ctor.h, ctor.bgcolor)
           /\ self.surf = FirstRender(self)

====
